---- MODULE Spec2Model ----
(***************************************************************************)
(* create-web3-sdk: the project scaffolder create() (src/create.ts and its  *)
(* changeset/anvil variant), and the command-line action that calls it.     *)
(*                                                                          *)
(* Paths are sequences of path segments; a JSON object is a function from   *)
(* its keys to its values; a shell command line is the sequence of its      *)
(* && stages,   each stage the sequence of its words; a text file is the    *)
(* sequence of its lines, a line the sequence of its fragments (a template  *)
(* literal is cut at every ${...} and around every 'bun run <script>').     *)
(***************************************************************************)
EXTENDS Integers, Sequences, FiniteSets, TLC

(***************************************************************************)
(* Inputs                                                                   *)
(***************************************************************************)

\* The two implementations of create() in the repository.
SrcCreate == "src/create.ts"
AltCreate == "part_002"
Impls == {SrcCreate, AltCreate}

\* Project names the caller may pass; Chars gives the characters of each.
ProjectNames == {"my-sdk", "My_SDK-2", "sdk", "a\"\\b"}

Chars(name) ==
    CASE name = "my-sdk"   -> <<"m", "y", "-", "s", "d", "k">>
      [] name = "My_SDK-2" -> <<"M", "y", "_", "S", "D", "K", "-", "2">>
      [] name = "sdk"      -> <<"s", "d", "k">>
      [] name = "a\"\\b"   -> <<"a", "\"", "\\", "b">>

\* How many entries the working directory holds before the process starts.
MaxPreexisting == 1

\* interface CreateOptions: typescript and git are required, typechain is
\* optional and exists in src/create.ts only.
CreateOptions(impl) ==
    [typescript : BOOLEAN, git : BOOLEAN]
        \cup (IF impl = SrcCreate
                THEN [typescript : BOOLEAN, git : BOOLEAN, typechain : BOOLEAN]
                ELSE {})

\* JavaScript truthiness of options[key]: an absent key reads as undefined.
Truthy(options, key) == key \in DOMAIN options /\ options[key]

(***************************************************************************)
(* JSON.stringify / JSON.parse of a string value                            *)
(***************************************************************************)

RECURSIVE JsonEscape(_)
JsonEscape(cs) ==
    IF cs = <<>> THEN <<>>
    ELSE (IF Head(cs) \in {"\"", "\\"} THEN <<"\\", Head(cs)>> ELSE <<Head(cs)>>)
            \o JsonEscape(Tail(cs))

JSONstringifyString(cs) == <<"\"">> \o JsonEscape(cs) \o <<"\"">>

RECURSIVE JsonUnescape(_)
JsonUnescape(ts) ==
    IF ts = <<>> THEN <<>>
    ELSE IF Head(ts) = "\\" /\ Len(ts) >= 2
           THEN <<ts[2]>> \o JsonUnescape(Tail(Tail(ts)))
           ELSE <<Head(ts)>> \o JsonUnescape(Tail(ts))

JSONparseString(ts) == JsonUnescape(SubSeq(ts, 2, Len(ts) - 1))

(***************************************************************************)
(* Object spread of a guarded object:  ...(flag && { ... })                 *)
(***************************************************************************)

EmptyObject == <<>>

\* (flag && obj) is obj when flag is truthy and the falsy flag otherwise;
\* spreading a falsy value contributes no key.
SpreadIf(flag, obj) == IF flag THEN obj ELSE EmptyObject

(***************************************************************************)
(* packageJson                                                              *)
(***************************************************************************)

Run(script) == <<"bun", "run", script>>

BuildPipeline ==
    << <<"rimraf", "dist">>, Run("build:esm"), Run("build:cjs"), Run("build:types") >>

PackageExports ==
    [import |-> "./dist/esm/index.js",
     require |-> "./dist/cjs/index.js",
     types |-> "./dist/types/index.d.ts"]

\* SrcScripts with the conditional key written as a conditional value:
\* "build:typechain": options.typechain ? "typechain ..." : ""
SrcScriptsEmptyKey(options) ==
    ("build" :> (IF Truthy(options, "typechain")
                    THEN BuildPipeline \o << Run("build:typechain") >>
                    ELSE BuildPipeline))
    @@ ("build:esm" :> << <<"tsc", "-p", "tsconfig/esm.json">> >>)
    @@ ("build:cjs" :> << <<"tsc", "-p", "tsconfig/cjs.json">> >>)
    @@ ("build:types" :> << <<"tsc", "-p", "tsconfig/types.json">> >>)
    @@ ("build:typechain" :>
            (IF Truthy(options, "typechain")
               THEN << <<"typechain", "--target=ethers-v6", "--out-dir",
                         "typechain/contracts", "'./abis/**/*.json'">> >>
               ELSE <<>>))
    @@ ("docs" :> << <<"typedoc">> >>)
    @@ ("docs:watch" :> << <<"typedoc", "--watch">> >>)
    @@ ("format" :> << <<"biome", "format", "--write", "./src">> >>)
    @@ ("lint" :> << <<"biome", "lint", "./src">> >>)
    @@ ("check" :> << <<"biome", "check", "./src">> >>)
    @@ ("test" :> << <<"vitest">> >>)
    @@ ("prepare" :> << Run("build") >>)

\* src/create.ts: the scripts map.
SrcScripts(options) ==
    ("build" :> (IF Truthy(options, "typechain")
                    THEN BuildPipeline \o << Run("build:typechain") >>
                    ELSE BuildPipeline))
    @@ ("build:esm" :> << <<"tsc", "-p", "tsconfig/esm.json">> >>)
    @@ ("build:cjs" :> << <<"tsc", "-p", "tsconfig/cjs.json">> >>)
    @@ ("build:types" :> << <<"tsc", "-p", "tsconfig/types.json">> >>)
    @@ SpreadIf(Truthy(options, "typechain"),
                ("build:typechain" :>
                    << <<"typechain", "--target=ethers-v6", "--out-dir",
                         "typechain/contracts", "'./abis/**/*.json'">> >>))
    @@ ("docs" :> << <<"typedoc">> >>)
    @@ ("docs:watch" :> << <<"typedoc", "--watch">> >>)
    @@ ("format" :> << <<"biome", "format", "--write", "./src">> >>)
    @@ ("lint" :> << <<"biome", "lint", "./src">> >>)
    @@ ("check" :> << <<"biome", "check", "./src">> >>)
    @@ ("test" :> << <<"vitest">> >>)
    @@ ("prepare" :> << Run("build") >>)

SrcDependencies(options) ==
    ("viem" :> "^2.22.12")
    @@ SpreadIf(Truthy(options, "typechain"), ("ethers" :> "^6.0.0"))

SrcDevDependencies(options) ==
    ("@biomejs/biome" :> "1.5.3")
    @@ ("rimraf" :> "^5.0.0")
    @@ ("typedoc" :> "^0.25.0")
    @@ ("typescript" :> "^5.7.0")
    @@ ("vitest" :> "^3.0.0")
    @@ SpreadIf(Truthy(options, "typechain"),
                ("@typechain/ethers-v6" :> "^0.5.0") @@ ("typechain" :> "^8.3.0"))

\* part_002: the scripts map takes no options.
AltScripts ==
    ("build" :> BuildPipeline)
    @@ ("build:esm" :> << <<"tsc", "-p", "tsconfig/esm.json">> >>)
    @@ ("build:cjs" :> << <<"tsc", "-p", "tsconfig/cjs.json">> >>)
    @@ ("build:types" :> << <<"tsc", "-p", "tsconfig/types.json">> >>)
    @@ ("docs" :> << <<"typedoc">> >>)
    @@ ("docs:watch" :> << <<"typedoc", "--watch">> >>)
    @@ ("format" :> << <<"biome", "format", "--write", "./src">> >>)
    @@ ("lint" :> << <<"biome", "lint", "./src">> >>)
    @@ ("check" :> << <<"biome", "check", "./src">> >>)
    @@ ("fork:base-sepolia" :>
            << <<"anvil", "--fork-url", "https://sepolia.base.org", "-vvvv">> >>)
    @@ ("test" :> << <<"concurrently", "\"bun run fork:base-sepolia\"",
                       "\"wait-on tcp:8545 && vitest\"",
                       "\"kill -9 $(lsof -t -i:8545)\"">> >>)
    @@ ("prepare" :> << Run("build") >>)
    @@ ("changeset" :> << <<"changeset">> >>)
    @@ ("version" :> << <<"changeset", "version">> >>)
    @@ ("release" :> << <<"npm", "run", "build">>,
                        <<"changeset", "publish", "--access", "public">> >>)

AltDependencies == ("viem" :> "^2.22.12")

AltDevDependencies ==
    ("@biomejs/biome" :> "1.5.3")
    @@ ("@changesets/cli" :> "^2.27.11")
    @@ ("rimraf" :> "^5.0.0")
    @@ ("typedoc" :> "^0.25.0")
    @@ ("typescript" :> "^5.7.0")
    @@ ("vitest" :> "^3.0.0")
    @@ ("concurrently" :> "^8.2.2")
    @@ ("wait-on" :> "^7.2.0")
    @@ ("@viem/anvil" :> "^0.0.10")

\* A name normalised to lower case, as npm asks of package names.
LowerCase(c) ==
    CASE c = "M" -> "m" [] c = "S" -> "s" [] c = "D" -> "d" [] c = "K" -> "k"
      [] OTHER -> c

PackageNameLowerCased(projectName) ==
    [k \in DOMAIN Chars(projectName) |-> LowerCase(Chars(projectName)[k])]

PackageName(projectName) == Chars(projectName)

\* The manifest object; name is kept as the characters of the string.
packageJson(impl, projectName, options) ==
    [name |-> PackageName(projectName),
     version |-> "0.1.0",
     type |-> "module",
     main |-> "./dist/cjs/index.js",
     module |-> "./dist/esm/index.js",
     types |-> "./dist/types/index.d.ts",
     exports |-> ("." :> PackageExports),
     scripts |-> IF impl = SrcCreate THEN SrcScripts(options) ELSE AltScripts,
     dependencies |-> IF impl = SrcCreate THEN SrcDependencies(options)
                                          ELSE AltDependencies,
     devDependencies |-> IF impl = SrcCreate THEN SrcDevDependencies(options)
                                             ELSE AltDevDependencies,
     peerDependencies |-> ("typescript" :> "^5.0.0")]

\* JSON.stringify(pkg, null, 2): name is the one value that comes from the
\* caller; the literal values are kept as the source writes them.
StringifyPackage(pkg) == [pkg EXCEPT !.name = JSONstringifyString(pkg.name)]

\* JSON.parse of the written manifest.
ParsePackage(text) == [text EXCEPT !.name = JSONparseString(text.name)]

(***************************************************************************)
(* tsconfig files                                                           *)
(***************************************************************************)

\* {...a, ...b}: the keys of b override those of a.
Spread(a, b) == b @@ a

tsConfig ==
    [compilerOptions |->
        [target |-> "ES2020",
         module |-> "ESNext",
         moduleResolution |-> "node",
         declaration |-> TRUE,
         strict |-> TRUE,
         esModuleInterop |-> TRUE,
         skipLibCheck |-> TRUE,
         forceConsistentCasingInFileNames |-> TRUE,
         outDir |-> "./dist"],
     include |-> <<"src">>,
     exclude |-> <<"node_modules", "dist", "**/*.test.ts">>]

TsconfigBase ==
    Spread(tsConfig,
           [compilerOptions |->
                Spread(tsConfig.compilerOptions,
                       [rootDir |-> "../src", outDir |-> "../dist"]),
            include |-> <<"../src/**/*">>,
            exclude |-> <<"../node_modules", "../dist", "../**/*.test.ts">>])

\* TsconfigEsm with the path the root tsconfig.json uses.
TsconfigEsmRootRelative ==
    [extends |-> "./tsconfig/base.json",
     compilerOptions |-> [outDir |-> "../dist/esm"]]

TsconfigEsm ==
    [extends |-> "../tsconfig/base.json",
     compilerOptions |-> [outDir |-> "../dist/esm"]]

TsconfigCjs ==
    [extends |-> "../tsconfig/base.json",
     compilerOptions |-> [module |-> "CommonJS", outDir |-> "../dist/cjs"]]

TsconfigTypes ==
    [extends |-> "../tsconfig/base.json",
     compilerOptions |-> [emitDeclarationOnly |-> TRUE, outDir |-> "../dist/types"]]

TsconfigRoot == [extends |-> "./tsconfig/base.json"]

\* The segments of the two `extends` values the templates use.
PathSegments(p) ==
    CASE p = "../tsconfig/base.json" -> <<"..", "tsconfig", "base.json">>
      [] p = "./tsconfig/base.json"  -> <<".", "tsconfig", "base.json">>

\* path.normalize on segments: "." is dropped, ".." drops the segment before.
RECURSIVE NormalizeOnto(_, _)
NormalizeOnto(done, todo) ==
    IF todo = <<>> THEN done
    ELSE IF Head(todo) = "." THEN NormalizeOnto(done, Tail(todo))
    ELSE IF Head(todo) = ".."
           THEN NormalizeOnto(IF done = <<>> THEN done
                                ELSE SubSeq(done, 1, Len(done) - 1), Tail(todo))
    ELSE NormalizeOnto(Append(done, Head(todo)), Tail(todo))

Dirname(path) == SubSeq(path, 1, Len(path) - 1)

\* The file an `extends` value written in the file at `path` refers to.
ExtendsTarget(path, extends) == NormalizeOnto(Dirname(path), PathSegments(extends))

(***************************************************************************)
(* Fixed configuration files                                                *)
(***************************************************************************)

TypedocJson ==
    ("$schema" :> "https://typedoc.org/schema.json")
    @@ [entryPoints |-> <<"src/index.ts">>,
        exclude |-> <<"src/test/**/*.ts">>,
        basePath |-> "src/",
        includes |-> "src/",
        out |-> "docs",
        gitRevision |-> "main"]

BiomeJson ==
    ("$schema" :> "https://biomejs.dev/schemas/1.5.3/schema.json")
    @@ [organizeImports |-> [enabled |-> FALSE],
        linter |->
            [enabled |-> TRUE,
             rules |->
                [recommended |-> TRUE,
                 suspicious |-> [noConsoleLog |-> "off"],
                 style |->
                    [noNonNullAssertion |-> "off",
                     useShorthandArrayType |-> "off",
                     noUselessElse |-> "off",
                     noUnusedTemplateLiteral |-> "off",
                     useSingleVarDeclarator |-> "off",
                     noParameterAssign |-> "off",
                     useTemplate |-> "off",
                     noShoutyConstants |-> "off"]]],
        formatter |->
            [enabled |-> TRUE,
             formatWithErrors |-> FALSE,
             indentStyle |-> "space",
             indentWidth |-> 2,
             lineWidth |-> 80],
        files |-> [ignore |-> <<"dist/**/*", "node_modules/**/*">>]]

AbiParam(internalType, name) ==
    [internalType |-> internalType, name |-> name, type |-> internalType]

ERC20Abi ==
    [name |-> "ERC20",
     abi |-> <<
        [inputs |-> <<AbiParam("string", "name_"), AbiParam("string", "symbol_")>>,
         stateMutability |-> "nonpayable",
         type |-> "constructor"],
        [inputs |-> <<AbiParam("address", "owner"), AbiParam("address", "spender")>>,
         name |-> "allowance",
         outputs |-> <<AbiParam("uint256", "")>>,
         stateMutability |-> "view",
         type |-> "function"] >>]

ChangesetConfig ==
    ("$schema" :> "https://unpkg.com/@changesets/config@2.3.1/schema.json")
    @@ [changelog |-> "@changesets/cli/changelog",
        commit |-> FALSE,
        fixed |-> <<>>,
        linked |-> <<>>,
        access |-> "public",
        baseBranch |-> "main",
        updateInternalDependencies |-> "patch",
        ignore |-> <<>>]

\* The TypeScript and dotenv templates are fixed literals with no ${...}:
\* each is named by its place in the source.
SrcIndexTs == [literal |-> "src/create.ts:195-251"]
SrcSdkTestTs == [literal |-> "src/create.ts:254-271"]
AltEnvExample == [literal |-> "part_002:190-196"]
AltIndexTs == [literal |-> "part_002:199-201"]
AltTestConfigTs == [literal |-> "part_002:206-242"]
AltTestUtilsTs == [literal |-> "part_002:245-273"]
AltSdkTestTs == [literal |-> "part_002:276-335"]

(***************************************************************************)
(* README.md and .gitignore templates                                       *)
(***************************************************************************)

\* A TLA+ string cannot hold the Markdown backquote: it is written ' here.
Line(text) == <<text>>

\* The head of both READMEs: the title and the installation example.
ReadmeTitle(projectName) == <<"# ", projectName>>

ReadmeInstall(projectName) ==
    << Line("## Installation"),
       Line(""),
       Line("Using bun (recommended):"),
       Line("'''bash"),
       <<"bunx create-web3-sdk ", "my-sdk">>,
       Line("'''"),
       Line(""),
       Line("Using npm:"),
       Line("'''bash"),
       <<"npx create-web3-sdk ", "my-sdk">>,
       Line("'''") >>

ReadmeHead(projectName) ==
    << Line(""), ReadmeTitle(projectName), Line("") >>
        \o ReadmeInstall(projectName)
        \o << Line(""), Line("## Development"), Line("") >>

SrcReadme(projectName, options) ==
    ReadmeHead(projectName)
    \o (IF Truthy(options, "typechain")
          THEN << Line("### Smart Contract Types"),
                  Line(""),
                  Line("1. Add your contract ABIs to the 'abis' directory"),
                  <<"2. Run '", "bun run ", "build:typechain",
                    "' to generate TypeScript types">>,
                  Line("3. Import and use the generated types in your SDK"),
                  Line("") >>
          ELSE <<>>)
    \o << Line("## Scripts"),
          Line(""),
          <<"- '", "bun run ", "build", "' - Build the SDK",
            IF Truthy(options, "typechain") THEN " (includes contract types)" ELSE "">> >>
    \o (IF Truthy(options, "typechain")
          THEN << <<"- '", "bun run ", "build:typechain",
                    "' - Generate TypeScript types from ABIs">> >>
          ELSE <<>>)
    \o << <<"- '", "bun run ", "test", "' - Run tests">>,
          <<"- '", "bun run ", "check", "' - Format and lint code">>,
          Line("") >>

AltReadme(projectName) ==
    ReadmeHead(projectName)
    \o << Line("### Scripts"),
          Line(""),
          <<"- '", "bun run ", "build", "' - Build the SDK">>,
          <<"- '", "bun run ", "test", "' - Run tests against Base Sepolia">>,
          <<"- '", "bun run ", "test:fork", "' - Run tests against local Anvil fork">>,
          <<"- '", "bun run ", "fork:base-sepolia",
            "' - Start Anvil fork of Base Sepolia">>,
          <<"- '", "bun run ", "check", "' - Format and lint code">>,
          Line(""),
          Line("### Testing with Local Fork"),
          Line(""),
          Line("For faster and more reliable tests, you can run them against a local Anvil fork:"),
          Line(""),
          Line("1. Install Anvil (comes with Foundry): https://book.getfoundry.sh/"),
          <<"2. Run '", "bun run ", "test:fork", "' - This will:">>,
          Line("   - Start an Anvil fork of Base Sepolia"),
          Line("   - Wait for the fork to be ready"),
          Line("   - Run the tests against the local fork"),
          Line(""),
          Line("### Versioning and Changelog"),
          Line(""),
          Line("This project uses [changesets](https://github.com/changesets/changesets) for versioning and changelog generation."),
          Line(""),
          Line("1. Make your changes"),
          Line("2. Run 'bun changeset' to create a new changeset"),
          Line("3. Follow the prompts to describe your changes"),
          Line("4. Commit the generated changeset file"),
          Line("5. When ready to release:"),
          <<"   - Run '", "bun run ", "version", "' to update versions and changelog">>,
          <<"   - Run '", "bun run ", "release", "' to publish to npm">>,
          Line("") >>

SrcGitignore(options) ==
    << Line(""), Line("node_modules"), Line("dist"), Line("docs"), Line(".env"),
       Line(IF Truthy(options, "typechain") THEN "typechain/contracts" ELSE ""),
       Line("") >>

AltGitignore ==
    << Line(""), Line("node_modules"), Line("dist"), Line("docs"), Line(".env"),
       Line("") >>

(***************************************************************************)
(* The body of create(): the operations it awaits or runs, in order         *)
(***************************************************************************)

MkdirStep(path) == [op |-> "mkdir", path |-> path]
WriteStep(path, data) == [op |-> "writeFile", path |-> path, data |-> data]
ExecStep(command) == [op |-> "execSync", command |-> command]

\* JSON.stringify(value, null, 2) of a literal object.
Json(value) == [json |-> value]
Text(lines) == [text |-> lines]

\* Directories without mkdir('tsconfig').
DirectoriesWithoutTsconfig ==
    << MkdirStep(<<"src">>), MkdirStep(<<"test">>) >>

Directories ==
    << MkdirStep(<<"src">>), MkdirStep(<<"test">>), MkdirStep(<<"tsconfig">>) >>

TsconfigWrites ==
    << WriteStep(<<"tsconfig", "base.json">>, Json(TsconfigBase)),
       WriteStep(<<"tsconfig", "esm.json">>, Json(TsconfigEsm)),
       WriteStep(<<"tsconfig", "cjs.json">>, Json(TsconfigCjs)),
       WriteStep(<<"tsconfig", "types.json">>, Json(TsconfigTypes)),
       WriteStep(<<"tsconfig.json">>, Json(TsconfigRoot)) >>

ConfigWrites(impl, projectName, options) ==
    << WriteStep(<<"package.json">>,
                 Json(StringifyPackage(packageJson(impl, projectName, options)))),
       WriteStep(<<"typedoc.json">>, Json(TypedocJson)),
       WriteStep(<<"biome.json">>, Json(BiomeJson)) >>

\* SrcSampleWrites without the sample test.
SrcSampleWritesWithoutTest ==
    << WriteStep(<<"src", "index.ts">>, SrcIndexTs) >>

SrcSampleWrites ==
    << WriteStep(<<"src", "index.ts">>, SrcIndexTs),
       WriteStep(<<"test", "sdk.test.ts">>, SrcSdkTestTs) >>

\* SrcTypechain with the guard dropped.
SrcTypechainUnguarded(options) ==
    << MkdirStep(<<"typechain">>),
       MkdirStep(<<"typechain", "contracts">>),
       MkdirStep(<<"abis">>),
       WriteStep(<<"abis", "ERC20.json">>, Json(ERC20Abi)) >>

SrcTypechain(options) ==
    IF Truthy(options, "typechain")
      THEN << MkdirStep(<<"typechain">>),
              MkdirStep(<<"typechain", "contracts">>),
              MkdirStep(<<"abis">>),
              WriteStep(<<"abis", "ERC20.json">>, Json(ERC20Abi)) >>
      ELSE <<>>

AltSampleWrites ==
    << WriteStep(<<".env.example">>, AltEnvExample),
       WriteStep(<<"src", "index.ts">>, AltIndexTs),
       MkdirStep(<<"test", "config">>),
       WriteStep(<<"test", "config", "test.config.ts">>, AltTestConfigTs),
       WriteStep(<<"test", "config", "test.utils.ts">>, AltTestUtilsTs),
       WriteStep(<<"test", "sdk.test.ts">>, AltSdkTestTs) >>

AltChangeset ==
    << MkdirStep(<<".changeset">>),
       WriteStep(<<".changeset", "config.json">>, Json(ChangesetConfig)) >>

\* GitignoreWrite with the guard dropped.
GitignoreWriteUnguarded(impl, options) ==
    << WriteStep(<<".gitignore">>,
                 Text(IF impl = SrcCreate THEN SrcGitignore(options)
                                          ELSE AltGitignore)) >>

GitignoreWrite(impl, options) ==
    IF Truthy(options, "git")
      THEN << WriteStep(<<".gitignore">>,
                        Text(IF impl = SrcCreate THEN SrcGitignore(options)
                                                 ELSE AltGitignore)) >>
      ELSE <<>>

\* execSync('git init') outside the if.
GitInitUnguarded(options) == << ExecStep("git init") >>

GitInit(options) ==
    IF Truthy(options, "git") THEN << ExecStep("git init") >> ELSE <<>>

Install == << ExecStep("bun install") >>

\* Everything create() does after mkdir(projectPath) and chdir.
CreateSteps(impl, projectName, options) ==
    Directories
    \o TsconfigWrites
    \o ConfigWrites(impl, projectName, options)
    \o (IF impl = SrcCreate
          THEN SrcSampleWrites
               \o SrcTypechain(options)
               \o << WriteStep(<<"README.md">>, Text(SrcReadme(projectName, options))) >>
          ELSE AltSampleWrites
               \o AltChangeset
               \o << WriteStep(<<"README.md">>, Text(AltReadme(projectName))) >>)
    \o GitignoreWrite(impl, options)
    \o GitInit(options)
    \o Install

(***************************************************************************)
(* State                                                                    *)
(***************************************************************************)

\* The create() calls one process makes.
Invs == {1, 2}

VARIABLES
    dirs,         \* the directories of the filesystem (absolute paths)
    files,        \* the regular files: absolute path -> content
    cwd,          \* process.cwd()
    stdout,       \* lines written by console.log
    stderr,       \* lines written by console.error
    exit,         \* whether the process has exited, and its code
    pending,      \* the calls the process has still to make
    status,       \* per call: idle, running, returned, threw
    impl,         \* per call: which create() is called
    caller,       \* per call: the command-line action or an importer
    projectName,  \* per call: argument
    options,      \* per call: argument
    projectPath,  \* per call: join(process.cwd(), projectName)
    pc,           \* per call: 0 awaits mkdir(projectPath), k >= 1 is step k
    spinner,      \* per call: the ora spinner
    error,        \* per call: the value the call threw
    log           \* per call: history of the operations it issued

fsVars == <<dirs, files>>
outVars == <<stdout, stderr, exit>>
argVars == <<impl, caller, projectName, options, projectPath>>
vars == <<dirs, files, cwd, stdout, stderr, exit, pending, status, impl, caller,
          projectName, options, projectPath, pc, spinner, error, log>>

Root == <<>>
Home == <<"work">>

\* path.join(base, ...rel); the names and literals used hold no separator.
Join(base, rel) == NormalizeOnto(base, rel)

Exists(path) == path \in dirs \/ path \in DOMAIN files

(***************************************************************************)
(* The collaborators: fs/promises, child_process                            *)
(***************************************************************************)

NoError == [thrown |-> FALSE]
ErrorObject(message) == [thrown |-> TRUE, isError |-> TRUE, message |-> message]
NonError(type, value) == [thrown |-> TRUE, isError |-> FALSE, type |-> type, value |-> value]

\* Values a collaborator may reject with beside its own Error.
ForeignRejections == {NonError("string", "rejected"), NonError("object", "{}")}

\* mkdir(path) without {recursive}: why the filesystem refuses it, if it does.
MkdirRefusal(path) ==
    IF Dirname(path) \notin dirs THEN "ENOENT"
    ELSE IF Exists(path) THEN "EEXIST"
    ELSE "none"

\* writeFile(path, data): why the filesystem refuses it, if it does.
WriteRefusal(path) ==
    IF Dirname(path) \notin dirs THEN "ENOENT"
    ELSE IF path \in dirs THEN "EISDIR"
    ELSE "none"

\* The ways an operation can end: refused by the state of the filesystem, or
\* else done, or failed for a reason outside the model (permissions, a full
\* disk, a command that exits non-zero).
Outcomes(refusal, fault) ==
    IF refusal # "none" THEN {ErrorObject(<<refusal>>)}
    ELSE {NoError, ErrorObject(fault)} \cup ForeignRejections

(***************************************************************************)
(* create()                                                                 *)
(***************************************************************************)

Spinning(text) == [state |-> "spinning", text |-> text]

\* A catch block that reports the failure and goes on with the next step.
CatchAndContinue(k) ==
    [status |-> "running", pc |-> k + 1,
     spinner |-> [state |-> "fail", text |-> <<"Failed to create project">>]]

\* A catch block that reports the failure and tries the step again.
CatchAndRetry(k) ==
    [status |-> "running", pc |-> k,
     spinner |-> [state |-> "fail", text |-> <<"Failed to create project">>]]

\* catch (error) { spinner.fail(...); throw error }: where the call is left
\* after step k failed.
Catch(k) ==
    [status |-> "threw", pc |-> k,
     spinner |-> [state |-> "fail", text |-> <<"Failed to create project">>]]

Thrown(i, k, err, entry) ==
    /\ status' = [status EXCEPT ![i] = Catch(k).status]
    /\ pc' = [pc EXCEPT ![i] = Catch(k).pc]
    /\ spinner' = [spinner EXCEPT ![i] = Catch(k).spinner]
    /\ error' = [error EXCEPT ![i] = IF Catch(k).status = "threw" THEN err ELSE @]
    /\ log' = [log EXCEPT ![i] = Append(@, entry)]

Advance(i, k, entry) ==
    /\ pc' = [pc EXCEPT ![i] = k + 1]
    /\ log' = [log EXCEPT ![i] = Append(@, entry)]
    /\ UNCHANGED <<status, error>>

\* The target resolved against the directory the process started in.
ProjectPathFromHome(name) == Join(Home, <<name>>)

\* join(process.cwd(), projectName)
ProjectPath(name) == Join(cwd, <<name>>)

\* The synchronous head of create(): the spinner starts, projectPath is
\* computed and mkdir(projectPath) is issued.
Begin(i, im, name, opts, who) ==
    /\ i \in pending
    /\ ~exit.exited
    /\ pending' = pending \ {i}
    /\ status' = [status EXCEPT ![i] = "running"]
    /\ impl' = [impl EXCEPT ![i] = im]
    /\ caller' = [caller EXCEPT ![i] = who]
    /\ projectName' = [projectName EXCEPT ![i] = name]
    /\ options' = [options EXCEPT ![i] = opts]
    /\ projectPath' = [projectPath EXCEPT ![i] = ProjectPath(name)]
    /\ pc' = [pc EXCEPT ![i] = 0]
    /\ spinner' = [spinner EXCEPT ![i] = Spinning(<<"Creating Web3 SDK project...">>)]
    /\ UNCHANGED <<fsVars, cwd, outVars, error, log>>

\* A call made by a caller that awaits each call before it makes the next.
Start(i, im, name, opts, who) ==
    /\ \A j \in Invs : status[j] # "running"
    /\ Begin(i, im, name, opts, who)

\* An importer of the package calls create(projectName, options).
create(i) ==
    \E im \in Impls, name \in ProjectNames :
        \E opts \in CreateOptions(im) : Start(i, im, name, opts, "api")

\* await mkdir(projectPath); process.chdir(projectPath)
MkdirProject(i) ==
    /\ status[i] = "running" /\ pc[i] = 0
    /\ \E out \in Outcomes(MkdirRefusal(projectPath[i]), <<"EACCES">>) :
        LET entry == [op |-> "mkdir", path |-> projectPath[i],
                      at |-> projectPath[i], ok |-> ~out.thrown, threw |-> out]
        IN  IF out.thrown
              THEN /\ Thrown(i, 0, out, entry)
                   /\ UNCHANGED <<fsVars, cwd>>
              ELSE /\ dirs' = dirs \cup {projectPath[i]}
                   /\ cwd' = projectPath[i]
                   /\ Advance(i, 0, entry)
                   /\ UNCHANGED <<files, spinner>>
    /\ UNCHANGED <<outVars, pending, argVars>>

\* The git steps left out when a directory above the project holds a
\* .gitignore already.
StepsUnlessEnclosed(i) ==
    CreateSteps(impl[i], projectName[i],
        IF \E n \in 0..(Len(projectPath[i]) - 1) :
              Join(SubSeq(projectPath[i], 1, n), <<".gitignore">>) \in DOMAIN files
          THEN [k \in DOMAIN options[i] \ {"git"} |-> options[i][k]]
          ELSE options[i])

\* The steps after mkdir(projectPath) and chdir, fixed by the arguments.
Steps(i) == CreateSteps(impl[i], projectName[i], options[i])

\* A relative path resolved against the project directory of the call.
ResolveInProject(i, path) == Join(projectPath[i], path)

\* fs resolves a relative path against the working directory of the process
\* at the time of the call.
Resolve(i, path) == Join(cwd, path)

AtStep(i, op) ==
    /\ status[i] = "running"
    /\ pc[i] \in 1..Len(Steps(i))
    /\ Steps(i)[pc[i]].op = op

\* await mkdir(relative path)
Mkdir(i) ==
    /\ AtStep(i, "mkdir")
    /\ LET step == Steps(i)[pc[i]]
           at == Resolve(i, step.path)
       IN  \E out \in Outcomes(MkdirRefusal(at), <<"EACCES">>) :
            LET entry == [op |-> "mkdir", path |-> step.path, at |-> at,
                          ok |-> ~out.thrown, threw |-> out]
            IN  IF out.thrown
                  THEN Thrown(i, pc[i], out, entry) /\ UNCHANGED dirs
                  ELSE /\ Advance(i, pc[i], entry)
                       /\ dirs' = dirs \cup {at}
                       /\ UNCHANGED spinner
    /\ UNCHANGED <<files, cwd, outVars, pending, argVars>>

\* await writeFile(relative path, data)
WriteFile(i) ==
    /\ AtStep(i, "writeFile")
    /\ LET step == Steps(i)[pc[i]]
           at == Resolve(i, step.path)
       IN  \E out \in Outcomes(WriteRefusal(at), <<"ENOSPC">>) :
            LET entry == [op |-> "writeFile", path |-> step.path, at |-> at,
                          ok |-> ~out.thrown, threw |-> out]
            IN  IF out.thrown
                  THEN Thrown(i, pc[i], out, entry) /\ UNCHANGED files
                  ELSE /\ Advance(i, pc[i], entry)
                       /\ files' = (at :> step.data) @@ files
                       /\ UNCHANGED spinner
    /\ UNCHANGED <<dirs, cwd, outVars, pending, argVars>>

\* execSync(command): runs in the working directory and throws when the
\* command exits non-zero.  What the command itself writes is not modelled.
\* spinner.text is set right before 'bun install' is run.
ExecSync(i) ==
    /\ AtStep(i, "execSync")
    /\ LET step == Steps(i)[pc[i]]
       IN  \E out \in Outcomes("none", <<"Command failed: ", step.command>>) :
            LET entry == [op |-> "execSync", command |-> step.command, at |-> cwd,
                          ok |-> ~out.thrown, threw |-> out]
            IN  IF out.thrown
                  THEN Thrown(i, pc[i], out, entry)
                  ELSE /\ Advance(i, pc[i], entry)
                       /\ spinner' = [spinner EXCEPT ![i] =
                            IF step.command = "bun install"
                              THEN Spinning(<<"Installing dependencies...">>)
                              ELSE @]
    /\ UNCHANGED <<fsVars, cwd, outVars, pending, argVars>>

NextSteps(name) ==
    << <<"">>, <<"Next steps:">>,
       <<"  cd ", name>>,
       <<"  bun install     # Install dependencies">>,
       <<"  bun run check   # Format and lint code">>,
       <<"  bun run test    # Run tests">>,
       <<"  bun run build   # Build the SDK">> >>

\* spinner.succeed(...) and the console.log lines that end the try block.
Succeed(i) ==
    /\ status[i] = "running"
    /\ pc[i] = Len(Steps(i)) + 1
    /\ spinner' = [spinner EXCEPT ![i] =
            [state |-> "succeed",
             text |-> <<"Successfully created ", projectName[i], "!">>]]
    /\ stdout' = stdout \o NextSteps(projectName[i])
    /\ status' = [status EXCEPT ![i] = "returned"]
    /\ UNCHANGED <<fsVars, cwd, stderr, exit, pending, argVars, pc, error, log>>

(***************************************************************************)
(* The command-line program                                                 *)
(***************************************************************************)

CliFlags == {"--typescript", "--git"}

\* .option(flag, description, true): a boolean option whose default is true.
\* A flag that is false unless it is given.
OptionValueWithoutDefault(flag, flags, default) == flag \in flags

OptionValue(flag, flags, default) == IF flag \in flags THEN TRUE ELSE default

ParseOptions(flags) ==
    [typescript |-> OptionValue("--typescript", flags, TRUE),
     git |-> OptionValue("--git", flags, TRUE)]

\* .action(async (projectName, options) => { await create(projectName, options) })
CliAction(i) ==
    \E name \in ProjectNames, flags \in SUBSET CliFlags :
        Start(i, SrcCreate, name, ParseOptions(flags), "cli")

\* String(error) of a value that is no Error.
String(err) == IF err.type = "string" THEN err.value ELSE "[object Object]"

\* console.error('Error:', ...)
ErrorLine(err) ==
    IF err.isError THEN <<"Error:", err.message>> ELSE <<"Error:", <<String(err)>>>>

\* process.exit(0) in the catch block.
ExitFailureAsSuccess == [exited |-> TRUE, code |-> 0]

\* process.exit(1)
ExitFailure == [exited |-> TRUE, code |-> 1]

\* The catch block of the action.
CliCatch(i) ==
    /\ caller[i] = "cli" /\ status[i] = "threw"
    /\ ~exit.exited
    /\ stderr' = Append(stderr, ErrorLine(error[i]))
    /\ exit' = ExitFailure
    /\ UNCHANGED <<fsVars, cwd, stdout, pending, status, argVars, pc, spinner,
                   error, log>>

\* The action resolves; with nothing left to run the process ends with code 0.
CliReturn(i) ==
    /\ caller[i] = "cli" /\ status[i] = "returned"
    /\ ~exit.exited
    /\ exit' = [exited |-> TRUE, code |-> 0]
    /\ UNCHANGED <<fsVars, cwd, stdout, stderr, pending, status, argVars, pc,
                   spinner, error, log>>

(***************************************************************************)
(* Specification                                                            *)
(***************************************************************************)

\* What the working directory may hold before the process starts: at most
\* MaxPreexisting entries, each a file or a directory named like a project.
PreexistingFile == [literal |-> "preexisting"]

Preexisting ==
    { e \in SUBSET (ProjectNames \X {"file", "dir"}) :
        /\ Cardinality(e) <= MaxPreexisting
        /\ \A a, b \in e : a[1] = b[1] => a = b }

InitWith(entries, calls) ==
    /\ dirs = {Root, Home} \cup { Join(Home, <<e[1]>>) : e \in {x \in entries : x[2] = "dir"} }
    /\ files = [ path \in { Join(Home, <<e[1]>>) : e \in {x \in entries : x[2] = "file"} }
                    |-> PreexistingFile ]
    /\ cwd = Home
    /\ stdout = <<>>
    /\ stderr = <<>>
    /\ exit = [exited |-> FALSE, code |-> 0]
    /\ pending = calls
    /\ status = [i \in Invs |-> "idle"]
    /\ impl = [i \in Invs |-> "none"]
    /\ caller = [i \in Invs |-> "none"]
    /\ projectName = [i \in Invs |-> ""]
    /\ options = [i \in Invs |-> EmptyObject]
    /\ projectPath = [i \in Invs |-> Root]
    /\ pc = [i \in Invs |-> 0]
    /\ spinner = [i \in Invs |-> [state |-> "none", text |-> <<>>]]
    /\ error = [i \in Invs |-> NoError]
    /\ log = [i \in Invs |-> <<>>]

\* One process that makes one call of create().
Init == \E entries \in Preexisting : InitWith(entries, {1})

Next ==
    \E i \in Invs :
        \/ create(i)
        \/ CliAction(i)
        \/ MkdirProject(i)
        \/ Mkdir(i)
        \/ WriteFile(i)
        \/ ExecSync(i)
        \/ Succeed(i)
        \/ CliCatch(i)
        \/ CliReturn(i)

Spec == Init /\ [][Next]_vars

(***************************************************************************)
(* A process that calls create() twice, one call after the other            *)
(***************************************************************************)

\* The name the two calls are made with.
SeqNames == {"My_SDK-2"}

Finished(i) == status[i] \in {"returned", "threw"}

\* The first call: call 1, with any implementation and options.
createFirst(i) ==
    /\ i = 1
    /\ \A j \in Invs : status[j] = "idle"
    /\ \E im \in Impls, name \in SeqNames :
          \E opts \in CreateOptions(im) : Start(i, im, name, opts, "api")

\* The second call, made once the first has returned or thrown: the caller
\* repeats the call with the same arguments.
createAgain(i) ==
    \E j \in Invs :
        /\ j # i /\ Finished(j)
        /\ Start(i, impl[j], projectName[j], options[j], "api")

InitSeq == InitWith({}, Invs)

NextSeq ==
    \E i \in Invs :
        \/ createFirst(i)
        \/ createAgain(i)
        \/ MkdirProject(i)
        \/ Mkdir(i)
        \/ WriteFile(i)
        \/ ExecSync(i)
        \/ Succeed(i)

SpecSeq == InitSeq /\ [][NextSeq]_vars

(***************************************************************************)
(* A process with two calls of create() in flight at once                   *)
(***************************************************************************)

\* The names call i is made with: the second call repeats the name of the
\* first or takes another.
ConcNames(i) == IF i = 1 THEN {"sdk"} ELSE {"sdk", "my-sdk"}

\* The options the calls are made with.
ConcOptions == { [typescript |-> TRUE, git |-> TRUE] }

\* From the last await of create() on, execSync and spinner.succeed run
\* without yielding to the event loop.
InSynchronousTail(j) ==
    /\ status[j] = "running"
    /\ pc[j] >= 1
    /\ \/ pc[j] = Len(Steps(j)) + 1
       \/ Steps(j)[pc[j]].op = "execSync"

\* Call i may run: no other call holds the thread.
MayRun(i) == \A j \in Invs \ {i} : ~InSynchronousTail(j)

\* The failures of this process are the ones its calls cause one another:
\* an operation fails only when the state of the filesystem refuses it.
Undisturbed ==
    \A j \in Invs :
        error[j].thrown =>
            error[j] \in { ErrorObject(<<c>>) : c \in {"ENOENT", "EEXIST", "EISDIR"} }

\* A call made without awaiting the call made before it, by a caller that
\* imported one create().
createConcurrently(i) ==
    /\ \A j \in pending : i <= j
    /\ MayRun(i)
    /\ \E im \in Impls, name \in ConcNames(i), opts \in ConcOptions :
          /\ \A j \in Invs : status[j] # "idle" => impl[j] = im
          /\ Begin(i, im, name, opts, "api")

InitConc == InitWith({}, Invs)

NextConc ==
    \E i \in Invs :
        \/ createConcurrently(i)
        \/ MkdirProject(i) /\ MayRun(i) /\ Undisturbed'
        \/ Mkdir(i) /\ MayRun(i) /\ Undisturbed'
        \/ WriteFile(i) /\ MayRun(i) /\ Undisturbed'
        \/ ExecSync(i) /\ MayRun(i) /\ Undisturbed'
        \/ Succeed(i) /\ MayRun(i)

SpecConc == InitConc /\ [][NextConc]_vars

(***************************************************************************)
(* Properties                                                               *)
(***************************************************************************)

Called == { i \in Invs : status[i] # "idle" }

IsPrefix(p, q) == Len(p) <= Len(q) /\ SubSeq(q, 1, Len(p)) = p

\* The directories strictly between the project directory and the file.
DirsAbove(i, at) ==
    { SubSeq(at, 1, n) : n \in (Len(projectPath[i]) + 1)..(Len(at) - 1) }

Writes(i) == { k \in DOMAIN log[i] : log[i][k].op = "writeFile" }

\* The relative paths the call has written.
Written(i) == { log[i][k].path : k \in { w \in Writes(i) : log[i][w].ok } }

\* The files that exist below the project directory, relative to it.
FilesBelow(i) ==
    { SubSeq(f, Len(projectPath[i]) + 1, Len(f)) :
        f \in { g \in DOMAIN files :
                    IsPrefix(projectPath[i], g) /\ g # projectPath[i] } }

FileAt(i, path) == files[Join(projectPath[i], path)]

HasFile(i, path) == Join(projectPath[i], path) \in DOMAIN files

\* C1: every writeFile a call issues, done or refused, targets a path below
\* its project directory, and the project directory and every directory
\* between it and the file were made by a mkdir of the same call that
\* succeeded earlier.
C1_DirectoryBeforeFile ==
    \A i \in Called : \A k \in Writes(i) :
        /\ IsPrefix(projectPath[i], log[i][k].at)
        /\ \A d \in DirsAbove(i, log[i][k].at) \cup {projectPath[i]} :
              \E j \in 1..(k - 1) :
                  /\ log[i][j].op = "mkdir"
                  /\ log[i][j].ok
                  /\ log[i][j].at = d

\* A call has written a file two directories below the project directory and
\* one in each first-level directory.
C1_Witness ==
    \E i \in Called :
        {<<"test", "config", "test.utils.ts">>, <<"tsconfig", "types.json">>,
         <<"src", "index.ts">>, <<".changeset", "config.json">>} \subseteq Written(i)

C1_WitnessAbis ==
    \E i \in Called : <<"abis", "ERC20.json">> \in Written(i)

FailedAtProjectDirectory(i) == Len(log[i]) >= 1 /\ ~log[i][1].ok

\* Nothing but what was there before the process started.
Untouched ==
    /\ cwd = Home
    /\ \A d \in dirs : Len(d) <= Len(Home) + 1
    /\ \A f \in DOMAIN files : Len(f) = Len(Home) + 1 /\ files[f] = PreexistingFile
    /\ \A d \in dirs : \A f \in DOMAIN files : d # f

\* C2: when mkdir(projectPath) fails, the call reports failure and throws the
\* error, and that mkdir is the only operation it ever issued: no write, no
\* further mkdir, no command; the working directory and every entry that was
\* in it stay as they were.
C2_ProjectDirectoryFailure ==
    \A i \in Called :
        FailedAtProjectDirectory(i) =>
            /\ status[i] = "threw"
            /\ spinner[i].state = "fail"
            /\ error[i].thrown /\ error[i] = log[i][1].threw
            /\ Len(log[i]) = 1
            /\ Untouched
            /\ (log[i][1].threw = ErrorObject(<<"EEXIST">>) => Exists(projectPath[i]))

\* mkdir(projectPath) was refused because a file holds the path.
C2_Witness ==
    \E i \in Called :
        /\ FailedAtProjectDirectory(i)
        /\ error[i] = ErrorObject(<<"EEXIST">>)
        /\ projectPath[i] \in DOMAIN files

DefaultOptions(opts) ==
    /\ Truthy(opts, "typescript")
    /\ Truthy(opts, "git")
    /\ ~Truthy(opts, "typechain")

SpecFileSet ==
    { <<"tsconfig", "base.json">>, <<"tsconfig", "esm.json">>,
      <<"tsconfig", "cjs.json">>, <<"tsconfig", "types.json">>,
      <<"tsconfig.json">>, <<"package.json">>, <<"typedoc.json">>,
      <<"biome.json">>, <<"src", "index.ts">>, <<"test", "sdk.test.ts">>,
      <<"README.md">>, <<".gitignore">>, <<".changeset", "config.json">> }

C3_WitnessAlt ==
    \E i \in Called :
        /\ status[i] = "returned" /\ DefaultOptions(options[i])
        /\ impl[i] = AltCreate

Package(i) == ParsePackage(FileAt(i, <<"package.json">>).json)

\* The call made, or tried to make, a directory at the relative path.
MkdirIssued(i, path) ==
    \E k \in DOMAIN log[i] :
        log[i][k].op = "mkdir" /\ k > 1 /\ log[i][k].path = path

\* C4: without a truthy options.typechain a call never writes abis/ERC20.json,
\* never makes typechain/ (nor abis/) and writes no build:typechain key into
\* package.json; with it, a call that returned wrote abis/ERC20.json, made
\* typechain/ and wrote the build:typechain key.
C4_ConditionalInclusion ==
    \A i \in Called :
        /\ ~Truthy(options[i], "typechain") =>
              /\ \A k \in Writes(i) : log[i][k].path # <<"abis", "ERC20.json">>
              /\ ~HasFile(i, <<"abis", "ERC20.json">>)
              /\ ~MkdirIssued(i, <<"typechain">>)
              /\ \A d \in dirs :
                    IsPrefix(projectPath[i], d) => "typechain" \notin { d[n] : n \in DOMAIN d }
              /\ HasFile(i, <<"package.json">>) =>
                    "build:typechain" \notin DOMAIN Package(i).scripts
        /\ (Truthy(options[i], "typechain") /\ status[i] = "returned") =>
              /\ <<"abis", "ERC20.json">> \in Written(i)
              /\ HasFile(i, <<"abis", "ERC20.json">>)
              /\ Join(projectPath[i], <<"typechain">>) \in dirs
              /\ "build:typechain" \in DOMAIN Package(i).scripts

\* A call with typechain: true has returned.
C4_Witness ==
    \E i \in Called : Truthy(options[i], "typechain") /\ status[i] = "returned"

\* A call with typechain: false has returned.
C4_WitnessOff ==
    \E i \in Called :
        /\ "typechain" \in DOMAIN options[i] /\ ~options[i].typechain
        /\ status[i] = "returned"

TsconfigVariants ==
    { <<"tsconfig", "esm.json">>, <<"tsconfig", "cjs.json">>, <<"tsconfig", "types.json">> }

TsconfigWritten(i) ==
    /\ \A v \in TsconfigVariants : HasFile(i, v)
    /\ HasFile(i, <<"tsconfig", "base.json">>)
    /\ HasFile(i, <<"tsconfig.json">>)

ExtendsBase(i, path) ==
    /\ "extends" \in DOMAIN FileAt(i, path).json
    /\ ExtendsTarget(path, FileAt(i, path).json.extends) = <<"tsconfig", "base.json">>

\* The keys of compilerOptions on which two written files disagree.
OptionsDiffer(i, a, b) ==
    LET ca == FileAt(i, a).json.compilerOptions
        cb == FileAt(i, b).json.compilerOptions
    IN  { k \in DOMAIN ca \cup DOMAIN cb :
            \/ k \notin DOMAIN ca
            \/ k \notin DOMAIN cb
            \/ ca[k] # cb[k] }

\* The differences a pair of variants may show: outDir, module when one of
\* the two is the CJS variant, and the keys of `more` when one of the two is
\* the file `more` names.
InheritanceChain(i, more) ==
    /\ ExtendsBase(i, <<"tsconfig.json">>)
    /\ \A v \in TsconfigVariants : ExtendsBase(i, v)
    /\ "extends" \notin DOMAIN FileAt(i, <<"tsconfig", "base.json">>).json
    /\ \A a, b \in TsconfigVariants :
          /\ DOMAIN FileAt(i, a).json = {"extends", "compilerOptions"}
          /\ FileAt(i, a).json.extends = FileAt(i, b).json.extends
          /\ a # b =>
                /\ "outDir" \in OptionsDiffer(i, a, b)
                /\ OptionsDiffer(i, a, b) \subseteq
                      {"outDir"}
                      \cup (IF <<"tsconfig", "cjs.json">> \in {a, b} THEN {"module"} ELSE {})
                      \cup UNION { more[f] : f \in DOMAIN more \cap {a, b} }
    /\ "module" \in DOMAIN FileAt(i, <<"tsconfig", "cjs.json">>).json.compilerOptions

\* C5 as stated: the variants differ in outDir and, for CJS, in module only.
C5_Original ==
    \A i \in Called : TsconfigWritten(i) => InheritanceChain(i, <<>>)

\* C5 amended: tsconfig.json and the three variants extend tsconfig/base.json;
\* the variants differ from one another only in compilerOptions.outDir, in
\* module (the CJS variant alone sets it) and in emitDeclarationOnly (the
\* types variant alone sets it).
C5_InheritanceChain ==
    \A i \in Called :
        TsconfigWritten(i) =>
            InheritanceChain(i, (<<"tsconfig", "types.json">> :> {"emitDeclarationOnly"}))

C5_Witness == \E i \in Called : TsconfigWritten(i) /\ status[i] = "returned"

\* What an operation of the log made is still there.
StillThere(i, j) ==
    LET e == log[i][j]
    IN  /\ (e.op = "mkdir" /\ e.ok) => e.at \in dirs
        /\ (e.op = "writeFile" /\ e.ok) => e.at \in DOMAIN files

\* The operation an entry of the log stands for.
Operation(e) == IF e.op = "execSync" THEN <<e.op, e.command>> ELSE <<e.op, e.at>>

\* C6: a failed operation is the last one the call issues: the call has
\* thrown the very error of that operation, the spinner shows the failure
\* and never the success, nothing was printed, no operation was issued
\* twice, and everything made before the failure is still in place.
C6_FailureIsFatal ==
    \A i \in Called :
        /\ \A k \in DOMAIN log[i] :
              ~log[i][k].ok =>
                  /\ k = Len(log[i])
                  /\ status[i] = "threw"
                  /\ error[i] = log[i][k].threw
                  /\ spinner[i].state = "fail"
                  /\ stdout = <<>>
                  /\ \A j \in 1..(k - 1) : log[i][j].ok /\ StillThere(i, j)
        /\ \A j, k \in DOMAIN log[i] :
              Operation(log[i][j]) = Operation(log[i][k]) => j = k
        /\ status[i] = "threw" => Len(log[i]) >= 1 /\ ~log[i][Len(log[i])].ok
        /\ spinner[i].state = "succeed" => \A k \in DOMAIN log[i] : log[i][k].ok

\* A call failed at 'bun install' after writing its files; another failed
\* at a writeFile.
C6_Witness ==
    \E i \in Called :
        /\ status[i] = "threw"
        /\ Len(log[i]) > 10
        /\ log[i][Len(log[i])].op = "execSync"
        /\ log[i][Len(log[i])].command = "bun install"

C6_WitnessWrite ==
    \E i \in Called :
        /\ status[i] = "threw"
        /\ log[i][Len(log[i])].op = "writeFile"
        /\ Written(i) # {}

\* C7: the command-line process ends with code 1 only after create threw,
\* and then the one line on the error stream is 'Error:' followed by the
\* message of the Error, or by the string form of any other value; after
\* create returned it ends with code 0 and an empty error stream; and once
\* create has thrown nothing but that exit can follow.
C7_ExitCode ==
    \A i \in Called :
        caller[i] = "cli" =>
            /\ exit.exited =>
                  /\ status[i] \in {"threw", "returned"}
                  /\ exit.code = (IF status[i] = "threw" THEN 1 ELSE 0)
            /\ (exit.exited /\ status[i] = "threw") =>
                  /\ Len(stderr) = 1
                  /\ Len(stderr[1]) = 2
                  /\ stderr[1][1] = "Error:"
                  /\ error[i].isError => stderr[1][2] = error[i].message
                  /\ ~error[i].isError =>
                        stderr[1][2] \in {<<"rejected">>, <<"[object Object]">>}
            /\ ~(exit.exited /\ status[i] = "threw") => stderr = <<>>
            /\ (status[i] = "threw" /\ ~exit.exited) => ENABLED CliCatch(i)
            /\ (status[i] = "returned" /\ ~exit.exited) => ENABLED CliReturn(i)

\* The command-line process exited with code 1 on a value that is no Error,
\* and, in another run, on an Error.
C7_Witness ==
    \E i \in Called :
        /\ caller[i] = "cli" /\ exit.exited /\ exit.code = 1
        /\ ~error[i].isError

C7_WitnessError ==
    \E i \in Called :
        /\ caller[i] = "cli" /\ exit.exited /\ exit.code = 1
        /\ error[i].isError

C7_WitnessSuccess ==
    \E i \in Called : caller[i] = "cli" /\ exit.exited /\ exit.code = 0

\* C8: the name that JSON.parse reads from the written package.json is,
\* character for character, the project name the call was given.
C8_ManifestName ==
    \A i \in Called :
        HasFile(i, <<"package.json">>) => Package(i).name = Chars(projectName[i])

\* package.json was written for a name with upper-case letters, and for a
\* name with characters that JSON escapes.
C8_Witness ==
    \E i \in Called : HasFile(i, <<"package.json">>) /\ projectName[i] = "My_SDK-2"

C8_WitnessEscaped ==
    \E i \in Called :
        /\ HasFile(i, <<"package.json">>)
        /\ FileAt(i, <<"package.json">>).json.name # <<"\"">> \o Chars(projectName[i]) \o <<"\"">>

Readme(i) == FileAt(i, <<"README.md">>).text

\* The lines of the installation example that run the scaffolder.
InstallCommands(readme) ==
    { k \in DOMAIN readme :
        readme[k][1] \in {"bunx create-web3-sdk ", "npx create-web3-sdk "} }

\* C9 as stated: the written README names the project in its title and in
\* the commands of its installation example.
C9_ReadmeInterpolation ==
    \A i \in Called :
        HasFile(i, <<"README.md">>) =>
            /\ Readme(i)[2] = <<"# ", projectName[i]>>
            /\ InstallCommands(Readme(i)) # {}
            /\ \A k \in InstallCommands(Readme(i)) :
                  Readme(i)[k][Len(Readme(i)[k])] = projectName[i]

\* The part of C9 the code keeps: the title names the project.
C9_ReadmeTitle ==
    \A i \in Called :
        HasFile(i, <<"README.md">>) => Readme(i)[2] = <<"# ", projectName[i]>>

\* The scripts a command line runs with 'bun run'.
StagesRun(command) ==
    { command[k][3] : k \in { n \in DOMAIN command :
        Len(command[n]) = 3 /\ command[n][1] = "bun" /\ command[n][2] = "run" } }

C10_WitnessOff ==
    \E i \in Called :
        /\ HasFile(i, <<"package.json">>)
        /\ "typechain" \in DOMAIN options[i] /\ ~options[i].typechain

\* The ignore patterns of a .gitignore: its lines that are not blank.
Patterns(text) == SelectSeq(text, LAMBDA line : line # <<"">>)

GitignoreIssued(i) ==
    \E k \in Writes(i) : log[i][k].path = <<".gitignore">>

\* C11: a call without a truthy options.git never issues a write of
\* .gitignore; a call with it that returned has written it; the patterns of
\* a written .gitignore are node_modules, dist, docs, .env, followed by
\* typechain/contracts exactly when options.typechain is truthy.
C11_Gitignore ==
    \A i \in Called :
        /\ ~Truthy(options[i], "git") =>
              ~GitignoreIssued(i) /\ ~HasFile(i, <<".gitignore">>)
        /\ (Truthy(options[i], "git") /\ status[i] = "returned") =>
              <<".gitignore">> \in Written(i) /\ HasFile(i, <<".gitignore">>)
        /\ HasFile(i, <<".gitignore">>) =>
              Patterns(FileAt(i, <<".gitignore">>).text) =
                  << <<"node_modules">>, <<"dist">>, <<"docs">>, <<".env">> >>
                  \o (IF Truthy(options[i], "typechain")
                        THEN << <<"typechain/contracts">> >> ELSE <<>>)

\* .gitignore was written with typechain: true; a call with git: false
\* returned.
C11_Witness ==
    \E i \in Called :
        HasFile(i, <<".gitignore">>) /\ Truthy(options[i], "typechain")

C11_WitnessOff ==
    \E i \in Called : ~Truthy(options[i], "git") /\ status[i] = "returned"

SameArguments(i, j) ==
    /\ impl[i] = impl[j]
    /\ projectName[i] = projectName[j]
    /\ options[i] = options[j]

\* What an operation was asked to act on, as the call named it.
Target(entry) == IF entry.op = "execSync" THEN entry.command ELSE entry.path

Shorter(a, b) == IF Len(a) <= Len(b) THEN Len(a) ELSE Len(b)

ChangedDirectory(i) == Len(log[i]) >= 1 /\ log[i][1].ok

C12_WitnessAfterFailure ==
    /\ status[1] = "threw" /\ ChangedDirectory(1)
    /\ status[2] = "returned"
    /\ Written(1) # {}

Execs(i) == { k \in DOMAIN log[i] : log[i][k].op = "execSync" }

\* The positions at which the call ran the command.
Ran(i, command) == { k \in Execs(i) : log[i][k].command = command }

\* The relative paths written before position k of the call's history.
WrittenBefore(i, k) ==
    { log[i][w].path : w \in { n \in Writes(i) : n < k /\ log[i][n].ok } }

\* C13: every mkdir and writeFile of a call precedes every command it runs,
\* and all of them succeeded; 'git init' is run only when options.git is
\* set, at most once, with .gitignore, README.md and package.json written
\* before it; 'bun install' is run at most once, is the last operation of
\* the call, and when options.git is set it directly follows a 'git init'
\* that returned; the spinner reports success only when the last operation
\* is a 'bun install' that returned without error, and then 'git init' was
\* run exactly when options.git is set.
C13_CommandOrder ==
    \A i \in Called :
        /\ \A k \in Execs(i) : \A j \in DOMAIN log[i] :
              /\ log[i][j].op # "execSync" => j < k
              /\ j < k => log[i][j].ok
              /\ {<<"README.md">>, <<"package.json">>} \subseteq WrittenBefore(i, k)
        /\ \A k \in Ran(i, "git init") :
              /\ Truthy(options[i], "git")
              /\ <<".gitignore">> \in WrittenBefore(i, k)
        /\ Cardinality(Ran(i, "git init")) <= 1
        /\ Cardinality(Ran(i, "bun install")) <= 1
        /\ Execs(i) = Ran(i, "git init") \cup Ran(i, "bun install")
        /\ \A k \in Ran(i, "bun install") :
              /\ k = Len(log[i])
              /\ Truthy(options[i], "git") =>
                    k - 1 \in Ran(i, "git init") /\ log[i][k - 1].ok
              /\ ~Truthy(options[i], "git") => log[i][k - 1].op = "writeFile"
        /\ (spinner[i].state = "succeed" \/ status[i] = "returned") =>
              /\ spinner[i].state = "succeed" /\ status[i] = "returned"
              /\ Len(log[i]) \in Ran(i, "bun install")
              /\ log[i][Len(log[i])].ok
              /\ Ran(i, "git init") # {} <=> Truthy(options[i], "git")

\* A call with options.git set returned: it ran 'git init', then
\* 'bun install'.
C13_Witness ==
    \E i \in Called :
        /\ status[i] = "returned"
        /\ Ran(i, "git init") # {} /\ Ran(i, "bun install") # {}

\* A call without options.git returned.
C13_WitnessNoGit ==
    \E i \in Called : status[i] = "returned" /\ ~Truthy(options[i], "git")

\* 'git init' failed: 'bun install' was never run.
C13_WitnessGitFailed ==
    \E i \in Called :
        /\ status[i] = "threw"
        /\ \E k \in Ran(i, "git init") : ~log[i][k].ok

\* The scripts a README tells its reader to run with 'bun run'.
ReadmeScripts(readme) ==
    UNION { { readme[k][n + 1] : n \in { m \in 1..(Len(readme[k]) - 1) :
                                            readme[k][m] = "bun run " } } :
            k \in DOMAIN readme }

\* C16 as stated: every script the written README runs with 'bun run' is a
\* key of the scripts of the package.json written by the same call.
C16_ReadmeScriptsDefined ==
    \A i \in Called :
        HasFile(i, <<"README.md">>) =>
            ReadmeScripts(Readme(i)) \subseteq DOMAIN Package(i).scripts

\* The part of C16 that holds: the README of src/create.ts runs only
\* scripts its package.json defines, build:typechain among them exactly
\* when options.typechain is set.
C16_SrcReadmeScriptsDefined ==
    \A i \in Called :
        (HasFile(i, <<"README.md">>) /\ impl[i] = SrcCreate) =>
            /\ ReadmeScripts(Readme(i)) \subseteq DOMAIN Package(i).scripts
            /\ "build:typechain" \in ReadmeScripts(Readme(i))
                  <=> Truthy(options[i], "typechain")

FromCommandLine(i) == caller[i] = "cli"

\* C17: a call made by the command-line program runs src/create.ts with
\* options that are exactly {typescript: true, git: true}, without a
\* typechain key; it never issues a mkdir of abis or typechain nor a write
\* of abis/ERC20.json, and never runs build:typechain; 'bun install' is run
\* only after .gitignore was written and 'git init' was run, so a run that
\* returns has done both.
C17_CommandLineOptions ==
    \A i \in Called :
        FromCommandLine(i) =>
            /\ impl[i] = SrcCreate
            /\ options[i] = [typescript |-> TRUE, git |-> TRUE]
            /\ DOMAIN options[i] = {"typescript", "git"}
            /\ \A k \in DOMAIN log[i] :
                  log[i][k].op # "execSync" =>
                      /\ log[i][k].path \notin
                            {<<"abis">>, <<"typechain">>, <<"abis", "ERC20.json">>}
                      /\ k > 1 => log[i][k].path[1] \notin {"abis", "typechain"}
            /\ \A d \in dirs : \A n \in DOMAIN d : d[n] \notin {"abis", "typechain"}
            /\ \A k \in Ran(i, "bun install") :
                  /\ <<".gitignore">> \in WrittenBefore(i, k)
                  /\ Ran(i, "git init") # {}
            /\ status[i] = "returned" =>
                  /\ HasFile(i, <<".gitignore">>)
                  /\ \E k \in Ran(i, "git init") : log[i][k].ok
                  /\ ~HasFile(i, <<"abis", "ERC20.json">>)

\* A command-line run returned.
C17_Witness ==
    \E i \in Called :
        /\ FromCommandLine(i)
        /\ status[i] = "returned"
        /\ <<".gitignore">> \in Written(i)

\* The working directory a caller that makes call 1, awaits it and then
\* makes call 2 finds when it makes call i.
DirectoryFound(i) ==
    IF i = 2 /\ ChangedDirectory(1) THEN projectPath[1] ELSE Home

\* No call was made after call i.
Latest(i) == \A j \in Called : j <= i

\* C15: in a process that makes two calls one after the other, the working
\* directory is the start directory until a call has made its project
\* directory, and from then on the project directory of the latest call that
\* has, whether the calls are running, have returned or have thrown; a call
\* whose mkdir(projectPath) failed has left it as it found it; and each
\* call's project path is its name joined to the working directory it
\* found, so the second call's target lies inside the first's project
\* directory once the first has made it.
C15_WorkingDirectory ==
    /\ cwd = IF ChangedDirectory(2) THEN projectPath[2]
             ELSE IF ChangedDirectory(1) THEN projectPath[1]
             ELSE Home
    /\ \A i \in Called :
          /\ projectPath[i] = Join(DirectoryFound(i), <<projectName[i]>>)
          /\ (FailedAtProjectDirectory(i) /\ Latest(i)) => cwd = DirectoryFound(i)
          /\ (ChangedDirectory(i) /\ Latest(i)) => cwd = projectPath[i]
    /\ (Called = Invs /\ ChangedDirectory(1)) =>
          /\ projectPath[2] = projectPath[1] \o <<projectName[2]>>
          /\ projectPath[2] # Join(Home, <<projectName[2]>>)

\* The first call made its project directory and threw later; the second
\* call made its own inside it and returned there.
C15_Witness ==
    /\ status[1] = "threw" /\ ChangedDirectory(1)
    /\ status[2] = "returned"
    /\ cwd = Home \o <<projectName[1], projectName[2]>>

\* The first call failed at mkdir(projectPath); the second was made from
\* the start directory.
C15_WitnessFailedAtTarget ==
    /\ FailedAtProjectDirectory(1)
    /\ ChangedDirectory(2)
    /\ cwd = Home \o <<projectName[2]>>

\* The operation the step appended to the history of call i, if it did.
Issued(i) == log'[i][Len(log'[i])]

\* C14: with two calls in flight, the working directory is the start
\* directory or the project directory of a call that has made it, and every
\* relative mkdir and writeFile a call issues is resolved against the
\* working directory of the process at that moment, every command run in
\* it, whichever call changed it last.
C14_SharedWorkingDirectory ==
    /\ [](cwd \in {Home} \cup { projectPath[j] : j \in { c \in Called : ChangedDirectory(c) } })
    /\ [][\A i \in Invs :
            (Len(log'[i]) = Len(log[i]) + 1 /\ Len(log[i]) >= 1) =>
                Issued(i).at = IF Issued(i).op = "execSync" THEN cwd
                               ELSE Join(cwd, Issued(i).path)]_vars

\* A relative mkdir or writeFile of one call was done inside the project
\* directory of the other and outside its own.
C14_Witness ==
    \E i \in Called : \E j \in Called \ {i} :
        \E k \in 2..Len(log[i]) :
            /\ log[i][k].op # "execSync" /\ log[i][k].ok
            /\ IsPrefix(projectPath[j], log[i][k].at)
            /\ ~IsPrefix(projectPath[i], log[i][k].at)

\* A call threw EEXIST on a directory the other call had made.
C14_WitnessCollision ==
    \E i \in Called : \E j \in Called \ {i} :
        /\ status[i] = "threw" /\ error[i] = ErrorObject(<<"EEXIST">>)
        /\ projectPath[i] # projectPath[j]
        /\ \E k \in DOMAIN log[j] :
              /\ log[j][k].op = "mkdir" /\ log[j][k].ok
              /\ log[j][k].at = log[i][Len(log[i])].at

\* A call returned with none of its files below its own project directory.
C14_WitnessReturnedElsewhere ==
    \E i \in Called :
        /\ status[i] = "returned"
        /\ \A k \in Writes(i) : ~IsPrefix(projectPath[i], log[i][k].at)

====
